---------------------------- MODULE Spec2Model ----------------------------
(***************************************************************************)
(* A model of ferris/base.py (SnowflakeObject, BaseObject, Object) and of  *)
(* the helpers of ferris/utils.py (sanitize_id, the snowflake codec, find, *)
(* ensure_async).                                                          *)
(*                                                                         *)
(* Five specifications share the variables:                                *)
(*   Spec       objects carrying ids: construction, _store_snowflake,      *)
(*              id / created_at / hash, == and !=, sanitize_id             *)
(*   SpecCodec  dt_to_snowflake followed by get_snowflake_creation_date    *)
(*   SpecOrder  get_snowflake_creation_date on two arbitrary snowflakes    *)
(*   SpecFind   the loop of find                                           *)
(*   SpecAsync  the coroutine returned by ensure_async                     *)
(*                                                                         *)
(* Python integers are unbounded and TLC's are 32 bits wide, so the two    *)
(* wide integers of the codec are carried in mixed radix:                  *)
(*   a millisecond count  n = 1000 * s + ms            as [s, ms]          *)
(*   a snowflake          n = (1000 * s + ms) * 2^64 + lo   as [s, ms, lo] *)
(* with 0 <= ms < 1000 and 0 <= lo < 2^64.  A Python float (IEEE double)   *)
(* is carried as an integer part and a numerator over 2^fb, fb being the   *)
(* number of fraction bits its exponent leaves of the 52-bit significand.  *)
(***************************************************************************)
EXTENDS Integers, Sequences, FiniteSets, TLC

VARIABLES
    objs,       \* ref -> [cls, id]: the objects and their private __id slot
    ret,        \* the last operation on the objects and what it gave back
    tIn,        \* codec: the datetime handed to dt_to_snowflake
    sfA,        \* codec: a snowflake (dt_to_snowflake's result, or an input)
    sfB,        \* codec: a second snowflake
    dA,         \* codec: get_snowflake_creation_date(sfA), once computed
    dB,         \* codec: get_snowflake_creation_date(sfB), once computed
    iterable,   \* find: the iterable, [items, cyclic]
    predicate,  \* find: element -> the value predicate(element) returns
    consumed,   \* find: how many elements the for loop has drawn
    found,      \* find: the call's state and return value
    func,       \* ensure_async: what func(args) gives back, [awaitable, val, yields]
    wrapper     \* ensure_async: the state of the coroutine wrapper(args)

vars == <<objs, ret, tIn, sfA, sfB, dA, dB, iterable, predicate, consumed,
          found, func, wrapper>>

entityVars == <<objs, ret>>
codecVars  == <<tIn, sfA, sfB, dA, dB>>
findVars   == <<iterable, predicate, consumed, found>>
asyncVars  == <<func, wrapper>>

(***************************************************************************)
(* Bounds of the model.                                                    *)
(***************************************************************************)
MaxId        == 1   \* ids stored in objects are 0..MaxId
MaxSecOffset == 1   \* seconds tried after (and before) each anchor date
MaxLow       == 1   \* low 64 bits of a snowflake are 0..MaxLow
MaxMsSample  == 1   \* SpecOrder: milliseconds 0..MaxMsSample and 999
MaxLen       == 3   \* find: length of the iterable's item list
MaxElem      == 2   \* find: elements are 1..MaxElem
MaxDrawn     == 5   \* find: elements drawn from an endless iterable
MaxYields    == 2   \* ensure_async: suspensions inside the awaited awaitable
MaxCalls     == 2   \* ensure_async: invocations of the wrapper
MaxVal       == 2   \* ensure_async: values and arguments are 0..MaxVal

(***************************************************************************)
(* Python values.                                                          *)
(***************************************************************************)
PyNone     == [t |-> "none"]
PyInt(n)   == [t |-> "int", v |-> n]
PyStr(s)   == [t |-> "str", s |-> s]
PyBool(b)  == [t |-> "bool", b |-> b]
PyRef(r)   == [t |-> "ref", r |-> r]
Raise(e)   == [t |-> "raise", exc |-> e]

\* bool(value): None, 0 and "" are falsy; an instance of a class that
\* defines neither __bool__ nor __len__ (all classes of base.py) is truthy.
Truthy(value) ==
    CASE value.t = "none" -> FALSE
      [] value.t = "int"  -> value.v # 0
      [] value.t = "str"  -> value.s # ""
      [] value.t = "bool" -> value.b
      [] OTHER            -> TRUE

(***************************************************************************)
(* Snowflake codec (utils.py).                                             *)
(***************************************************************************)
FERRIS_EPOCH == 1577836800

MS_PER_SEC == 1000

\* FERRIS_EPOCH_MS = 1_577_836_800_000 = 1000 * FERRIS_EPOCH, in mixed radix
FERRIS_EPOCH_MS == [s |-> FERRIS_EPOCH, ms |-> 0]

\* fraction bits of the significand of an IEEE double, Python's float
DOUBLE_FRACTION_BITS == 52

RECURSIVE Log2Floor(_)
Log2Floor(x) == IF x < 2 THEN 0 ELSE 1 + Log2Floor(x \div 2)

\* n / d rounded to the nearest integer, ties to even: the rounding of every
\* float operation, and of utcfromtimestamp (ROUND_HALF_EVEN). n >= 0, d > 0.
RoundHalfEven(n, d) ==
    LET q == n \div d
        r == n % d
    IN  IF 2 * r > d \/ (2 * r = d /\ q % 2 = 1) THEN q + 1 ELSE q

\* The float  s + ms / 1000  for integers s >= 1, 0 <= ms < 1000: the
\* result of an exact quotient or sum rounded once to a double. Its
\* exponent is that of s, which leaves fb fraction bits; the fraction is
\* RoundHalfEven(ms * 2^fb / 1000) / 2^fb  (1000 = 8 * 125 keeps the
\* product inside 32 bits).
FloatOfMillis(s, ms) ==
    LET fb == DOUBLE_FRACTION_BITS - Log2Floor(s)
    IN  [ip |-> s, num |-> RoundHalfEven(ms * 2^(fb - 3), 125), fb |-> fb]

\* datetime.timestamp() of a datetime on a whole millisecond: seconds since
\* 1970 as a float, (dt - epoch) / 1 s for an aware datetime and
\* seconds + microsecond / 1e6 for a naive one in UTC.
Timestamp(dt) == FloatOfMillis(dt.sec, dt.us \div 1000)

\* Whether the float product x * 1000 reaches the next exponent, e + 10,
\* where e is the exponent of x (2^e <= x < 2^(e+1), so the product lies in
\* [2^(e+9), 2^(e+11))):  x * 1000 >= 2^(e+10)  iff  x - 2^e >= 3 * 2^e / 125.
ProductCarries(x) ==
    LET e     == Log2Floor(x.ip)
        q     == 2^e \div 125
        rem   == 2^e % 125
        delta == (x.ip - 2^e) - 3 * q
    IN  IF delta < 0 THEN FALSE
        ELSE IF delta > 2 THEN TRUE
        ELSE 125 * delta * 2^x.fb + 125 * x.num >= 3 * rem * 2^x.fb

\* x * 1000 as a float: 1000 * x.ip is an integer, so only the fraction
\* x.num * 1000 / 2^x.fb is rounded, to the pb fraction bits the product's
\* exponent leaves. The value is 1000 * s + num / 2^fb.
TimesThousand(x) ==
    LET e  == Log2Floor(x.ip) + (IF ProductCarries(x) THEN 10 ELSE 9)
        pb == DOUBLE_FRACTION_BITS - e
    IN  [s   |-> x.ip,
         num |-> RoundHalfEven(x.num * 125, 2^(x.fb - pb - 3)),
         fb  |-> pb]

\* p - FERRIS_EPOCH_MS as a float: the difference is smaller than p and on
\* the same grid, so it is exact. The value is 1000 * s + num / 2^fb.
MinusEpoch(p) == [p EXCEPT !.s = p.s - FERRIS_EPOCH_MS.s]

\* int(v): truncation toward zero, as a millisecond count in mixed radix.
\* v = 1000 * s + num / 2^fb is negative exactly when s < 0 (num / 2^fb <= 1000).
IntOfFloat(v) ==
    LET whole == v.num \div 2^v.fb
        part  == v.num % 2^v.fb
        t     == IF v.s < 0 /\ part # 0 THEN whole + 1 ELSE whole
    IN  [s |-> v.s + t \div MS_PER_SEC, ms |-> t % MS_PER_SEC]

\* n << 64
ShiftLeft64(n) == [s |-> n.s, ms |-> n.ms, lo |-> 0]

\* The snowflake reading the low 64 bits instead of shifting them out.
LowBitsInsteadOfShift(snowflake) == [s |-> 0, ms |-> snowflake.lo % MS_PER_SEC]

\* snowflake >> 64
ShiftRight64(snowflake) == [s |-> snowflake.s, ms |-> snowflake.ms]

\* n + FERRIS_EPOCH_MS
PlusEpoch(n) == [s |-> n.s + FERRIS_EPOCH_MS.s, ms |-> n.ms]

\* datetime.utcfromtimestamp(x): the fraction of x in microseconds, rounded
\* half to even; x.num * 10^6 / 2^fb = x.num * 15625 / 2^(fb - 6), the
\* numerator split at 2^(fb - 6) to stay inside 32 bits.
UtcFromTimestamp(x) ==
    LET d  == 2^(x.fb - 6)
        us == (x.num \div d) * 15625 + RoundHalfEven((x.num % d) * 15625, d)
    IN  IF us >= 1000000 THEN [sec |-> x.ip + 1, us |-> us - 1000000]
        ELSE [sec |-> x.ip, us |-> us]

\* utils.py: dt_to_snowflake
dt_to_snowflake(dt) ==
    LET timestamp == MinusEpoch(TimesThousand(Timestamp(dt)))
    IN  ShiftLeft64(IntOfFloat(timestamp))

\* utils.py: get_snowflake_creation_date
get_snowflake_creation_date(snowflake) ==
    LET n       == PlusEpoch(ShiftRight64(snowflake))
        seconds == FloatOfMillis(n.s, n.ms)
    IN  UtcFromTimestamp(seconds)

\* Integer order on snowflakes and on millisecond counts, and the order of
\* datetimes.
SnowflakeLess(a, b) ==
    \/ a.s < b.s
    \/ a.s = b.s /\ a.ms < b.ms
    \/ a.s = b.s /\ a.ms = b.ms /\ a.lo < b.lo

DatetimeLess(d, e) == d.sec < e.sec \/ (d.sec = e.sec /\ d.us < e.us)

NoSnowflake == [t |-> "none"]
NoDatetime  == [t |-> "none"]


(***************************************************************************)
(* Identity base types (base.py).                                          *)
(*                                                                         *)
(* BaseObject is abstract: the objects compared are instances of concrete  *)
(* subclasses that callers define.  The model has three, User, Guild and   *)
(* Bot, a subclass of User, beside the concrete class Object of base.py.   *)
(***************************************************************************)
Refs == {"a", "b"}

EntityClasses == {"User", "Bot", "Guild"}

\* the direct base class of each class
Base(cls) ==
    CASE cls = "Bot"             -> "User"
      [] cls = "User"            -> "BaseObject"
      [] cls = "Guild"           -> "BaseObject"
      [] cls = "BaseObject"      -> "SnowflakeObject"
      [] cls = "Object"          -> "SnowflakeObject"
      [] OTHER                   -> "object"

\* issubclass(cls, of)
RECURSIVE IsSubclass(_, _)
IsSubclass(cls, of) ==
    IF cls = of THEN TRUE
    ELSE IF cls = "object" THEN FALSE
    ELSE IsSubclass(Base(cls), of)

Live(r) == objs[r].cls # "free"

IsEntity(r) == Live(r) /\ IsSubclass(objs[r].cls, "BaseObject")

\* isinstance(value, cls)
IsInstance(value, cls) ==
    value.t = "ref" /\ IsSubclass(objs[value.r].cls, cls)

\* value.id: the property of SnowflakeObject on an instance, AttributeError
\* on None, an int or a str
GetId(value) ==
    IF value.t = "ref" THEN objs[value.r].id ELSE Raise("AttributeError")

\* SnowflakeObject.__init__
SnowflakeObject__init__(o) == [o EXCEPT !.id = PyNone]

\* A setter that keeps the first id stored.
StoreOnce(o, id) == IF o.id = PyNone THEN [o EXCEPT !.id = id] ELSE o

\* SnowflakeObject._store_snowflake
SnowflakeObject_store_snowflake(o, id) == [o EXCEPT !.id = id]

\* Object.__init__
Object__init__(o, id) ==
    SnowflakeObject_store_snowflake(SnowflakeObject__init__(o), id)

\* An id below 2^64 as a snowflake: its high 64 bits are zero.
SnowflakeOfInt(n) == [s |-> 0, ms |-> 0, lo |-> n]

\* BaseObject.created_at; None >> 64 is a TypeError
BaseObject_created_at(r) ==
    IF objs[r].id.t = "int"
    THEN get_snowflake_creation_date(SnowflakeOfInt(objs[r].id.v))
    ELSE Raise("TypeError")

\* hash(value) of None or of an int of small magnitude
PyHash(value) ==
    IF value.t = "int"
    THEN PyInt(IF value.v = -1 THEN -2 ELSE value.v)
    ELSE [t |-> "hash", of |-> value.t]

\* The hash object.__hash__ gives: one per instance.
HashOfIdentity(r) == [t |-> "hash", of |-> r]

\* BaseObject.__hash__
BaseObject__hash__(r) == PyHash(objs[r].id)

\* __eq__ testing for any BaseObject rather than for self.__class__.
EqAnyEntity(self, other) ==
    IF IsInstance(other, "BaseObject")
    THEN PyBool(GetId(other) = objs[self].id)
    ELSE PyBool(FALSE)

\* __eq__ reading other.id before the isinstance test.
EqIdFirst(self, other) ==
    LET oid == GetId(other)
    IN  IF oid.t = "raise" THEN oid
        ELSE PyBool(oid = objs[self].id /\ IsInstance(other, objs[self].cls))

\* BaseObject.__eq__: isinstance(other, self.__class__) and
\* other.id == self.id, the second test run only when the first holds
BaseObject__eq__(self, other) ==
    IF IsInstance(other, objs[self].cls)
    THEN LET oid == GetId(other)
         IN  IF oid.t = "raise" THEN oid ELSE PyBool(oid = objs[self].id)
    ELSE PyBool(FALSE)

\* BaseObject.__ne__
BaseObject__ne__(self, other) ==
    LET eq == BaseObject__eq__(self, other)
    IN  IF eq.t = "raise" THEN eq ELSE PyBool(~eq.b)

\* Whether `self == other` / `self != other` asks the right operand first:
\* it does when type(other) is a proper subclass of type(self).
ReflectedFirst(self, other) ==
    /\ other.t = "ref"
    /\ objs[other.r].cls # objs[self].cls
    /\ IsSubclass(objs[other.r].cls, objs[self].cls)

\* self == other, self an instance of a BaseObject subclass. The method
\* always returns a bool, never NotImplemented, so the first answer stands.
OperatorEq(self, other) ==
    IF ReflectedFirst(self, other)
    THEN BaseObject__eq__(other.r, PyRef(self))
    ELSE BaseObject__eq__(self, other)

\* self != other
OperatorNe(self, other) ==
    IF ReflectedFirst(self, other)
    THEN BaseObject__ne__(other.r, PyRef(self))
    ELSE BaseObject__ne__(self, other)

\* sanitize_id without the getattr.
SanitizeRaw(id) == IF Truthy(id) THEN id ELSE PyNone

\* utils.py: sanitize_id
sanitize_id(id) ==
    IF Truthy(id)
    THEN (IF id.t = "ref" THEN objs[id.r].id ELSE id)
    ELSE PyNone

Ids == {PyInt(n) : n \in 0..MaxId}

\* right-hand operands of a comparison, arguments of sanitize_id
Operands ==
    {PyNone, PyStr(""), PyStr("1")} \cup Ids \cup {PyRef(r) : r \in {x \in Refs : Live(x)}}

Free == [cls |-> "free", id |-> PyNone]

InitEntities ==
    /\ objs = [r \in Refs |-> Free]
    /\ ret = [op |-> "none"]

\* cls(): a new instance of a concrete BaseObject subclass
Construct(r, cls) ==
    /\ ~Live(r)
    /\ objs' = [objs EXCEPT ![r] = SnowflakeObject__init__([cls |-> cls, id |-> PyNone])]
    /\ ret' = [op |-> "__init__", self |-> r]
    /\ UNCHANGED <<codecVars, findVars, asyncVars>>

\* Object(id)
ConstructObject(r, id) ==
    /\ ~Live(r)
    /\ objs' = [objs EXCEPT ![r] = Object__init__([cls |-> "Object", id |-> PyNone], id)]
    /\ ret' = [op |-> "Object", self |-> r, arg |-> id]
    /\ UNCHANGED <<codecVars, findVars, asyncVars>>

\* obj.__init__() run again on an instance of a BaseObject subclass
Reinitialize(r) ==
    /\ IsEntity(r)
    /\ objs' = [objs EXCEPT ![r] = SnowflakeObject__init__(objs[r])]
    /\ ret' = [op |-> "__init__", self |-> r]
    /\ UNCHANGED <<codecVars, findVars, asyncVars>>

\* obj._store_snowflake(id)
StoreSnowflake(r, id) ==
    /\ Live(r)
    /\ objs' = [objs EXCEPT ![r] = SnowflakeObject_store_snowflake(objs[r], id)]
    /\ ret' = [op |-> "_store_snowflake", self |-> r, arg |-> id, old |-> objs[r].id]
    /\ UNCHANGED <<codecVars, findVars, asyncVars>>

\* obj.id
ReadId(r) ==
    /\ Live(r)
    /\ ret' = [op |-> "id", self |-> r, val |-> GetId(PyRef(r))]
    /\ UNCHANGED <<objs, codecVars, findVars, asyncVars>>

\* obj.created_at
ReadCreatedAt(r) ==
    /\ IsEntity(r)
    /\ ret' = [op |-> "created_at", self |-> r, val |-> BaseObject_created_at(r)]
    /\ UNCHANGED <<objs, codecVars, findVars, asyncVars>>

\* hash(obj)
Hash(r) ==
    /\ IsEntity(r)
    /\ ret' = [op |-> "hash", self |-> r, val |-> BaseObject__hash__(r)]
    /\ UNCHANGED <<objs, codecVars, findVars, asyncVars>>

\* obj == other
CompareEq(r, other) ==
    /\ IsEntity(r)
    /\ ret' = [op |-> "==", self |-> r, other |-> other, val |-> OperatorEq(r, other)]
    /\ UNCHANGED <<objs, codecVars, findVars, asyncVars>>

\* obj != other
CompareNe(r, other) ==
    /\ IsEntity(r)
    /\ ret' = [op |-> "!=", self |-> r, other |-> other, val |-> OperatorNe(r, other)]
    /\ UNCHANGED <<objs, codecVars, findVars, asyncVars>>

\* obj.__eq__(other), the method called directly
CallEq(r, other) ==
    /\ IsEntity(r)
    /\ ret' = [op |-> "__eq__", self |-> r, other |-> other,
               val |-> BaseObject__eq__(r, other)]
    /\ UNCHANGED <<objs, codecVars, findVars, asyncVars>>

\* sanitize_id(value)
SanitizeId(value) ==
    /\ ret' = [op |-> "sanitize_id", arg |-> value, val |-> sanitize_id(value)]
    /\ UNCHANGED <<objs, codecVars, findVars, asyncVars>>


(***************************************************************************)
(* The parts of the state a specification does not use stay as they are.   *)
(***************************************************************************)
IdleEntities == InitEntities

IdleCodec ==
    /\ tIn = NoDatetime
    /\ sfA = NoSnowflake
    /\ sfB = NoSnowflake
    /\ dA = NoDatetime
    /\ dB = NoDatetime

IdleFind ==
    /\ iterable = [items |-> <<>>, cyclic |-> FALSE]
    /\ predicate = <<>>
    /\ consumed = 0
    /\ found = [state |-> "idle"]

IdleAsync ==
    /\ func = [awaitable |-> FALSE, val |-> PyNone, yields |-> 0]
    /\ wrapper = [pc |-> "idle", invocations |-> 0, calls |-> 0, suspensions |-> 0]

(***************************************************************************)
(* Spec: objects, their ids and the operations on them.                    *)
(***************************************************************************)
Init == InitEntities /\ IdleCodec /\ IdleFind /\ IdleAsync

Next ==
    \/ \E r \in Refs, cls \in EntityClasses : Construct(r, cls)
    \/ \E r \in Refs, id \in Ids : ConstructObject(r, id)
    \/ \E r \in Refs : Reinitialize(r)
    \/ \E r \in Refs, id \in Ids : StoreSnowflake(r, id)
    \/ \E r \in Refs : ReadId(r)
    \/ \E r \in Refs : ReadCreatedAt(r)
    \/ \E r \in Refs : Hash(r)
    \/ \E r \in Refs, other \in Operands : CompareEq(r, other)
    \/ \E r \in Refs, other \in Operands : CompareNe(r, other)
    \/ \E r \in Refs, other \in Operands : CallEq(r, other)
    \/ \E value \in Operands : SanitizeId(value)

Spec == Init /\ [][Next]_vars

\* the last operation compared two instances of BaseObject subclasses
ComparedEntities(op) ==
    /\ ret.op = op
    /\ ret.other.t = "ref"
    /\ IsEntity(ret.other.r)

\* C1: a == b holds exactly when a and b are instances of the same concrete
\* class and their ids are equal; instances of different concrete classes,
\* a class and its subclass included, are never equal.
C1_EqIffSameClassAndId ==
    ComparedEntities("==") =>
        ret.val = PyBool(/\ objs[ret.self].cls = objs[ret.other.r].cls
                         /\ objs[ret.self].id = objs[ret.other.r].id)

\* C1 witness: a User was compared with a Bot (a subclass of User) carrying
\* the same stored id, and the comparison gave False.
C1_Witness ==
    /\ ComparedEntities("==")
    /\ objs[ret.self].cls = "User"
    /\ objs[ret.other.r].cls = "Bot"
    /\ objs[ret.self].id = objs[ret.other.r].id
    /\ objs[ret.self].id # PyNone
    /\ ret.val = PyBool(FALSE)

\* C2 as stated: once an object holds an id, no operation changes it.
C2_IdNeverReassigned ==
    [][\A r \in Refs :
        (Live(r) /\ objs[r].id # PyNone) => objs'[r].id = objs[r].id]_vars

\* C2 amended: reading id or created_at, hashing, comparing and sanitize_id
\* leave every id alone; an id changes only in a _store_snowflake call or a
\* run of the initializer on that object, and after _store_snowflake(v) the
\* id read is v, whatever was stored before.
C2_IdChangesOnlyByStore ==
    /\ [](ret.op = "_store_snowflake" => GetId(PyRef(ret.self)) = ret.arg)
    /\ [](ret.op = "Object" => GetId(PyRef(ret.self)) = ret.arg)
    /\ [][\A r \in Refs :
            objs'[r] # objs[r] =>
                ret'.op \in {"_store_snowflake", "__init__", "Object"} /\ ret'.self = r]_vars

\* C2 witness: _store_snowflake ran on an object that already held another
\* id, and the object now holds the new one.
C2_Witness ==
    /\ ret.op = "_store_snowflake"
    /\ ret.old # PyNone
    /\ ret.old # ret.arg
    /\ objs[ret.self].id = ret.arg

\* C4: whenever a == b for two objects, hash(a) = hash(b).
C4_EqualImpliesSameHash ==
    (ComparedEntities("==") /\ ret.val = PyBool(TRUE)) =>
        BaseObject__hash__(ret.self) = BaseObject__hash__(ret.other.r)

\* C4 witness: two distinct objects with a stored id compared equal.
C4_Witness ==
    /\ ComparedEntities("==")
    /\ ret.val = PyBool(TRUE)
    /\ ret.self # ret.other.r
    /\ objs[ret.self].id # PyNone

\* C5: == and != against None, an int or a str never raise; == gives False
\* and != gives True, whether or not the object's own id is stored.
C5_NonIdentityOperand ==
    (ret.op \in {"==", "!="} /\ ret.other.t \in {"none", "int", "str"}) =>
        ret.val = PyBool(ret.op = "!=")

\* C5 witness: an object was compared with the int equal to its own id.
C5_Witness ==
    /\ ret.op = "=="
    /\ ret.other.t = "int"
    /\ objs[ret.self].id = ret.other
    /\ ret.val = PyBool(FALSE)

\* C7: sanitize_id gives None for None and 0, the int itself for another
\* int, and the id of an id-bearing object (0 and the unset id included);
\* so the result is an int or None.
C7_SanitizeId ==
    ret.op = "sanitize_id" =>
        /\ ret.arg = PyNone => ret.val = PyNone
        /\ ret.arg = PyInt(0) => ret.val = PyNone
        /\ (ret.arg.t = "int" /\ ret.arg.v # 0) => ret.val = ret.arg
        /\ ret.arg.t = "ref" => ret.val = GetId(ret.arg)
        /\ ret.arg.t \in {"none", "int", "ref"} => ret.val.t \in {"int", "none"}

\* C7 witness: sanitize_id was given an object whose stored id is 0.
C7_Witness ==
    /\ ret.op = "sanitize_id"
    /\ ret.arg.t = "ref"
    /\ objs[ret.arg.r].id = PyInt(0)
    /\ ret.val = PyInt(0)

\* C10 as stated: a.__eq__(b) and b.__eq__(a) give the same result for any
\* two instances of BaseObject subclasses.
C10_EqSymmetric ==
    ComparedEntities("__eq__") =>
        ret.val = BaseObject__eq__(ret.other.r, PyRef(ret.self))


(***************************************************************************)
(* SpecCodec: dt_to_snowflake, then get_snowflake_creation_date.           *)
(*                                                                         *)
(* The datetimes handed in lie on whole milliseconds, in the seconds after *)
(* 2004-01-10T13:37:04Z (2^30 s, the first second whose float has exponent *)
(* 30) and in the seconds before and after the epoch, 2020-01-01T00:00:00Z.*)
(***************************************************************************)
DateSeconds ==
    UNION {{2^30 + i, FERRIS_EPOCH + i, FERRIS_EPOCH - 1 - i} : i \in 0..MaxSecOffset}

DateInputs ==
    {[sec |-> s, us |-> 1000 * k] : s \in DateSeconds, k \in 0..(MS_PER_SEC - 1)}

InitCodec ==
    /\ tIn \in DateInputs
    /\ sfA = NoSnowflake
    /\ sfB = NoSnowflake
    /\ dA = NoDatetime
    /\ dB = NoDatetime
    /\ IdleEntities /\ IdleFind /\ IdleAsync

\* sfA = dt_to_snowflake(tIn)
Encode ==
    /\ tIn # NoDatetime
    /\ sfA = NoSnowflake
    /\ sfA' = dt_to_snowflake(tIn)
    /\ UNCHANGED <<tIn, sfB, dA, dB, entityVars, findVars, asyncVars>>

\* dA = get_snowflake_creation_date(sfA)
DecodeA ==
    /\ sfA # NoSnowflake
    /\ dA = NoDatetime
    /\ dA' = get_snowflake_creation_date(sfA)
    /\ UNCHANGED <<tIn, sfA, sfB, dB, entityVars, findVars, asyncVars>>

\* dB = get_snowflake_creation_date(sfB)
DecodeB ==
    /\ sfB # NoSnowflake
    /\ dB = NoDatetime
    /\ dB' = get_snowflake_creation_date(sfB)
    /\ UNCHANGED <<tIn, sfA, sfB, dA, entityVars, findVars, asyncVars>>

NextCodec == Encode \/ DecodeA

SpecCodec == InitCodec /\ [][NextCodec]_vars

\* C3 as stated: for every datetime t on a whole millisecond, before or
\* after the epoch, get_snowflake_creation_date(dt_to_snowflake(t)) = t, and
\* the low 64 bits of dt_to_snowflake(t) are zero.
C3_RoundTrip ==
    (tIn # NoDatetime /\ dA # NoDatetime) => (dA = tIn /\ sfA.lo = 0)

(***************************************************************************)
(* SpecOrder: get_snowflake_creation_date on two snowflakes with arbitrary *)
(* low bits, created in the seconds around the epoch.                      *)
(***************************************************************************)
SampleSnowflakes ==
    {[s |-> s, ms |-> ms, lo |-> lo] :
        s \in (0 - MaxSecOffset)..MaxSecOffset,
        ms \in (0..MaxMsSample) \cup {MS_PER_SEC - 1},
        lo \in 0..MaxLow}

InitOrder ==
    /\ tIn = NoDatetime
    /\ sfA \in SampleSnowflakes
    /\ sfB \in SampleSnowflakes
    /\ dA = NoDatetime
    /\ dB = NoDatetime
    /\ IdleEntities /\ IdleFind /\ IdleAsync

NextOrder == DecodeA \/ DecodeB

SpecOrder == InitOrder /\ [][NextOrder]_vars

BothDecoded == dA # NoDatetime /\ dB # NoDatetime

\* C9: for two snowflakes a and b with arbitrary low 64 bits, decode(a)
\* earlier than decode(b) implies a < b; a <= b implies decode(a) <=
\* decode(b); and snowflakes with the same high 64 bits decode alike.
C9_SortableByCreation ==
    BothDecoded =>
        /\ DatetimeLess(dA, dB) => SnowflakeLess(sfA, sfB)
        /\ ~SnowflakeLess(sfB, sfA) => ~DatetimeLess(dB, dA)
        /\ (sfA.s = sfB.s /\ sfA.ms = sfB.ms) => dA = dB

\* C9 witness: a has the larger low bits and the earlier creation time.
C9_Witness ==
    /\ BothDecoded
    /\ sfA.lo > sfB.lo
    /\ DatetimeLess(dA, dB)
    /\ SnowflakeLess(sfA, sfB)

(***************************************************************************)
(* SpecFind: find(predicate, iterable).                                    *)
(*                                                                         *)
(* The iterable yields items in order, once, or over and over without end  *)
(* when cyclic (itertools.cycle(items)).  The model stops drawing from an  *)
(* endless iterable after MaxDrawn elements.                               *)
(***************************************************************************)
Elements == 1..MaxElem

PredicateValues == {PyNone, PyInt(0), PyInt(1)}

RECURSIVE SeqsUpTo(_)
SeqsUpTo(n) ==
    IF n = 0 THEN {<<>>}
    ELSE LET shorter == SeqsUpTo(n - 1)
         IN  shorter \cup {Append(q, e) : q \in {x \in shorter : Len(x) = n - 1}, e \in Elements}

HasNext == iterable.cyclic \/ consumed < Len(iterable.items)

NextElement == iterable.items[(consumed % Len(iterable.items)) + 1]

\* A test that takes every value but None for a match.
IsNotNone(element) == predicate[element] # PyNone

\* if predicate(element):
PredicateHolds(element) == Truthy(predicate[element])

InitFind ==
    /\ iterable \in {[items |-> q, cyclic |-> c] :
                        q \in SeqsUpTo(MaxLen), c \in BOOLEAN} \ {[items |-> <<>>, cyclic |-> TRUE]}
    /\ predicate \in [Elements -> PredicateValues]
    /\ consumed = 0
    /\ found = [state |-> "running"]
    /\ IdleEntities /\ IdleCodec /\ IdleAsync

\* one turn of `for element in iterable`: the element matches and is returned
FindReturn ==
    /\ found.state = "running"
    /\ HasNext
    /\ consumed < MaxDrawn
    /\ PredicateHolds(NextElement)
    /\ consumed' = consumed + 1
    /\ found' = [state |-> "returned", val |-> PyInt(NextElement)]
    /\ UNCHANGED <<iterable, predicate, entityVars, codecVars, asyncVars>>

\* one turn of the loop: the element does not match
FindSkip ==
    /\ found.state = "running"
    /\ HasNext
    /\ consumed < MaxDrawn
    /\ ~PredicateHolds(NextElement)
    /\ consumed' = consumed + 1
    /\ UNCHANGED <<found, iterable, predicate, entityVars, codecVars, asyncVars>>

\* the iterable is exhausted: return None
FindExhausted ==
    /\ found.state = "running"
    /\ ~HasNext
    /\ found' = [state |-> "returned", val |-> PyNone]
    /\ UNCHANGED <<consumed, iterable, predicate, entityVars, codecVars, asyncVars>>

NextFind == FindReturn \/ FindSkip \/ FindExhausted

SpecFind == InitFind /\ [][NextFind]_vars

\* position of the first item whose predicate value is truthy, 0 if none
FirstMatch ==
    LET hits == {i \in 1..Len(iterable.items) : Truthy(predicate[iterable.items[i]])}
    IN  IF hits = {} THEN 0 ELSE CHOOSE i \in hits : \A j \in hits : i <= j

\* C6: find returns the first element, in order, whose predicate value is
\* truthy and draws no element after it, also from an endless iterable;
\* it returns None when the iterable ends without a match.
C6_FindFirstMatch ==
    /\ FirstMatch > 0 => consumed <= FirstMatch
    /\ (FirstMatch > 0 /\ found.state = "running") => consumed < FirstMatch
    /\ found.state = "returned" =>
          IF FirstMatch > 0
          THEN found.val = PyInt(iterable.items[FirstMatch]) /\ consumed = FirstMatch
          ELSE found.val = PyNone /\ ~iterable.cyclic /\ consumed = Len(iterable.items)

\* C6 witness: find returned the second element of an endless iterable whose
\* third element matches too.
C6_Witness ==
    /\ found.state = "returned"
    /\ iterable.cyclic
    /\ FirstMatch = 2
    /\ consumed = 2
    /\ Len(iterable.items) = 3
    /\ Truthy(predicate[iterable.items[3]])

(***************************************************************************)
(* SpecAsync: awaiting wrapper(args), wrapper = ensure_async(func).       *)
(*                                                                         *)
(* func(args) gives back the plain value func.val, or an awaitable that   *)
(* suspends func.yields times and then results in func.val.                *)
(***************************************************************************)
Values == {PyInt(n) : n \in 0..MaxVal}

Awaitable(n) == [t |-> "awaitable", left |-> n]

\* The wrapper never awaiting what func gave back.
NeverAwaitable(value) == FALSE

\* inspect.isawaitable(maybe_coro)
IsAwaitable(value) == value.t = "awaitable"

InitAsync ==
    /\ func \in {[awaitable |-> a, val |-> v, yields |-> y] :
                    a \in BOOLEAN, v \in Values, y \in 0..MaxYields}
    /\ ~func.awaitable => func.yields = 0
    /\ wrapper = [pc |-> "idle", invocations |-> 0, calls |-> 0, suspensions |-> 0]
    /\ IdleEntities /\ IdleCodec /\ IdleFind

\* await wrapper(args) begins
Invoke(args) ==
    /\ wrapper.pc \in {"idle", "returned"}
    /\ wrapper.invocations < MaxCalls
    /\ wrapper' = [pc |-> "start", invocations |-> wrapper.invocations + 1,
                   calls |-> wrapper.calls, suspensions |-> 0, args |-> args]
    /\ UNCHANGED <<func, entityVars, codecVars, findVars>>

\* maybe_coro = func(args)
CallFunc ==
    /\ wrapper.pc = "start"
    /\ wrapper' = [pc |-> "called", invocations |-> wrapper.invocations,
                   calls |-> wrapper.calls + 1, suspensions |-> 0,
                   args |-> wrapper.args, got |-> wrapper.args,
                   maybe_coro |-> IF func.awaitable THEN Awaitable(func.yields)
                                  ELSE func.val]
    /\ UNCHANGED <<func, entityVars, codecVars, findVars>>

\* if inspect.isawaitable(maybe_coro): start awaiting it
BeginAwait ==
    /\ wrapper.pc = "called"
    /\ IsAwaitable(wrapper.maybe_coro)
    /\ wrapper' = [wrapper EXCEPT !.pc = "awaiting"]
    /\ UNCHANGED <<func, entityVars, codecVars, findVars>>

\* return maybe_coro
ReturnValue ==
    /\ wrapper.pc = "called"
    /\ ~IsAwaitable(wrapper.maybe_coro)
    /\ wrapper' = [wrapper EXCEPT !.pc = "returned"] @@ [result |-> wrapper.maybe_coro]
    /\ UNCHANGED <<func, entityVars, codecVars, findVars>>

\* the awaited awaitable suspends, and the wrapper with it
Suspend ==
    /\ wrapper.pc = "awaiting"
    /\ wrapper.maybe_coro.left > 0
    /\ wrapper' = [wrapper EXCEPT !.maybe_coro = Awaitable(@.left - 1),
                                  !.suspensions = @ + 1]
    /\ UNCHANGED <<func, entityVars, codecVars, findVars>>

\* the awaited awaitable finishes: return await maybe_coro
ReturnAwaited ==
    /\ wrapper.pc = "awaiting"
    /\ wrapper.maybe_coro.left = 0
    /\ wrapper' = [wrapper EXCEPT !.pc = "returned"] @@ [result |-> func.val]
    /\ UNCHANGED <<func, entityVars, codecVars, findVars>>

NextAsync ==
    \/ \E args \in Values : Invoke(args)
    \/ CallFunc
    \/ BeginAwait
    \/ ReturnValue
    \/ Suspend
    \/ ReturnAwaited

SpecAsync == InitAsync /\ [][NextAsync]_vars

\* C8: each awaited invocation of the wrapper calls func exactly once, with
\* the arguments given; what func gives back is awaited if it is awaitable,
\* the only place the wrapper suspends, and its result returned; otherwise
\* the value is returned as it is, without suspending.
C8_CallOnceAwaitIfAwaitable ==
    /\ wrapper.calls = wrapper.invocations - (IF wrapper.pc = "start" THEN 1 ELSE 0)
    /\ wrapper.pc \in {"called", "awaiting", "returned"} => wrapper.got = wrapper.args
    /\ wrapper.suspensions > 0 => (func.awaitable /\ wrapper.pc \in {"awaiting", "returned"})
    /\ wrapper.pc = "returned" =>
          /\ wrapper.result = func.val
          /\ wrapper.suspensions = func.yields

\* C8 witness: a second invocation returned after awaiting an awaitable
\* that suspended twice.
C8_Witness ==
    /\ wrapper.pc = "returned"
    /\ wrapper.invocations = 2
    /\ func.awaitable
    /\ wrapper.suspensions = 2

=============================================================================
